---- MODULE Spec2Model ----
(***************************************************************************)
(* Model of src/pages/index.tsx: the Home component of the WebP -> PNG     *)
(* converter.  The state is the React state `images` together with the     *)
(* processFile invocations that are suspended at `await createImageBitmap`.*)
(* Strings that the code inspects character by character (file.type,       *)
(* file.name) are sequences of one-character strings; a data URL is the    *)
(* sequence <<prefix, payload>>, and '' is the empty sequence.             *)
(***************************************************************************)
EXTENDS Integers, Sequences, FiniteSets, TLC

\* ------------------------------------------------------------------ bounds
MaxFiles == 2      \* processFile invocations that register an item, in total
MaxBatch == 2      \* files in one drop / one file-picker selection
NumIds   == 2      \* distinct values Math.random().toString(36).substr(2, 9) yields

\* ------------------------------------------------------------------ inputs
Ids == 1..NumIds

TypeWebp == <<"i","m","a","g","e","/","w","e","b","p">>
TypeText == <<"t","e","x","t","/","p","l","a","i","n">>

NameAW    == <<"a",".","w">>
NameAP    == <<"a",".","p">>
NameNotes == <<"n",".","t">>

\* what a drop or a selection can hold: images (two of them differ in the
\* extension only), and a text file, which is no image
Files ==
    [name : {NameAW, NameAP}, type : {TypeWebp}]
      \cup [name : {NameNotes}, type : {TypeText}]

Batches == UNION {[1..n -> Files] : n \in 1..MaxBatch}

\* ------------------------------------------------------------------ state
VARIABLES images, owner, calls, started, lastOp

vars == <<images, owner, calls, started, lastOp>>

\* ----------------------------------------------------- string operations
\* a prefix test that compares the lengths only
StartsWithLengthOnly(s, p) == Len(s) >= Len(p)

StartsWith(s, p) == Len(s) >= Len(p) /\ SubSeq(s, 1, Len(p)) = p

ImageSlash == <<"i","m","a","g","e","/">>

\* the regular expression /\.[^/.]+$/ matches at position i
ExtMatchAt(name, i) ==
    /\ name[i] = "."
    /\ i < Len(name)
    /\ \A j \in (i+1)..Len(name) : name[j] \notin {"/", "."}

\* name.replace(/\.[^/.]+$/, "")
StripExt(name) ==
    LET hits == {i \in 1..Len(name) : ExtMatchAt(name, i)}
    IN  IF hits = {} THEN name
        ELSE LET first == CHOOSE i \in hits : \A j \in hits : i <= j
             IN  SubSeq(name, 1, first - 1)

DotPng == <<".","p","n","g">>

PngFileName(name) == StripExt(name) \o DotPng

PngPrefix == "data:image/png;base64,"

\* canvas.toDataURL('image/png') of the canvas the bitmap was drawn on;
\* pixels stands for the picture, and so for the base64 text of its PNG
ToDataURL(pixels) == <<PngPrefix, pixels>>

\* pngUrl.replace(/^data:image\/png;base64,/, "")
StripDataPrefix(url) ==
    IF url # <<>> /\ Head(url) = PngPrefix THEN Tail(url) ELSE url

\* ------------------------------------------------------- state updaters
\* the item registered without the 'converting' status
NewItemPending(id, name) ==
    [id |-> id, originalName |-> name, pngUrl |-> <<>>, status |-> "pending"]

NewItem(id, name) ==
    [id |-> id, originalName |-> name, pngUrl |-> <<>>, status |-> "converting"]

\* prev => [...prev, item]
Append1(prev, item) == Append(prev, item)

\* a completion that stores the output and forgets the status
MarkDoneOutputOnly(prev, id, pngUrl) ==
    [i \in 1..Len(prev) |->
        IF prev[i].id = id
        THEN [prev[i] EXCEPT !.pngUrl = pngUrl]
        ELSE prev[i]]

\* prev => prev.map(img => img.id === id ? { ...img, pngUrl, status: 'done' } : img)
MarkDone(prev, id, pngUrl) ==
    [i \in 1..Len(prev) |->
        IF prev[i].id = id
        THEN [prev[i] EXCEPT !.pngUrl = pngUrl, !.status = "done"]
        ELSE prev[i]]

\* prev => prev.map(img => img.id === id ? { ...img, status: 'error' } : img)
MarkError(prev, id) ==
    [i \in 1..Len(prev) |->
        IF prev[i].id = id
        THEN [prev[i] EXCEPT !.status = "error"]
        ELSE prev[i]]

\* positions kept by prev.filter(i => i.id !== id)
RECURSIVE KeptPositions(_, _, _)
KeptPositions(prev, id, i) ==
    IF i > Len(prev) THEN <<>>
    ELSE IF prev[i].id # id
         THEN <<i>> \o KeptPositions(prev, id, i + 1)
         ELSE KeptPositions(prev, id, i + 1)

\* a removal that splices out the first item of the id only
RemoveFirstById(prev, id) ==
    LET hits == {i \in 1..Len(prev) : prev[i].id = id}
    IN  IF hits = {} THEN prev
        ELSE LET first == CHOOSE i \in hits : \A j \in hits : i <= j
             IN  SubSeq(prev, 1, first - 1) \o SubSeq(prev, first + 1, Len(prev))

\* prev => prev.filter(i => i.id !== id)
RemoveById(prev, id) ==
    LET kept == KeptPositions(prev, id, 1)
    IN  [k \in 1..Len(kept) |-> prev[kept[k]]]

\* --------------------------------------------------------- initial state
\* useState<ConvertedImage[]>([]); no processFile invocation exists yet.
\* calls holds the invocations suspended at an await, started counts all
\* invocations that registered an item, owner[p] is the invocation that
\* registered images[p], lastOp the handler that ran last with its input.
Init ==
    /\ images = <<>>
    /\ owner = <<>>
    /\ calls = {}
    /\ started = 0
    /\ lastOp = [kind |-> "init"]

\* ------------------------------------------------------------ processFile
\* The synchronous part of processFile(file), up to `await createImageBitmap`:
\* st is the state it runs in, id the value Math.random() produced for it.
ProcessFileSync(st, file, id) ==
    IF ~StartsWith(file.type, ImageSlash) THEN st
    ELSE [images  |-> Append1(st.images, NewItem(id, file.name)),
          owner   |-> Append(st.owner, st.started + 1),
          calls   |-> st.calls \cup {[call |-> st.started + 1, id |-> id]},
          started |-> st.started + 1]

NumImageFiles(files) ==
    Cardinality({i \in 1..Len(files) : StartsWith(files[i].type, ImageSlash)})

\* files.forEach(processFile): every invocation runs to its first await.
\* ids[j] is what Math.random() yields in the j-th invocation that reaches
\* line 23; base is the number of invocations started before this batch.
RECURSIVE ForEachProcessFile(_, _, _, _, _)
ForEachProcessFile(st, files, ids, base, i) ==
    IF i > Len(files) THEN st
    ELSE ForEachProcessFile(
             ProcessFileSync(st, files[i],
                             IF st.started - base + 1 \in DOMAIN ids
                             THEN ids[st.started - base + 1] ELSE 0),
             files, ids, base, i + 1)

\* handleDrop / handleFileSelect
AcceptFiles ==
    \E files \in Batches :
      /\ started + NumImageFiles(files) <= MaxFiles
      /\ \E ids \in [1..NumImageFiles(files) -> Ids] :
           LET st == ForEachProcessFile(
                        [images |-> images, owner |-> owner,
                         calls |-> calls, started |-> started],
                        files, ids, started, 1)
           IN  /\ images' = st.images
               /\ owner' = st.owner
               /\ calls' = st.calls
               /\ started' = st.started
      /\ lastOp' = [kind |-> "accept", files |-> files]

\* createImageBitmap resolved, a 2d context was obtained: lines 28-39
SettleDone(c) ==
    /\ c \in calls
    /\ images' = MarkDone(images, c.id, ToDataURL(c.call))
    /\ calls' = calls \ {c}
    /\ lastOp' = [kind |-> "settle", call |-> c.call, result |-> "done"]
    /\ UNCHANGED <<owner, started>>

\* createImageBitmap rejected, or getContext('2d') returned null: lines 40-45
SettleError(c) ==
    /\ c \in calls
    /\ images' = MarkError(images, c.id)
    /\ calls' = calls \ {c}
    /\ lastOp' = [kind |-> "settle", call |-> c.call, result |-> "error"]
    /\ UNCHANGED <<owner, started>>

Call(k) == {c \in calls : c.call = k}

Settle(k) == \E c \in Call(k) : SettleDone(c) \/ SettleError(c)

\* the remove button of a rendered item: line 157
RemoveItem ==
    \E p \in 1..Len(images) :
      LET id == images[p].id
          kept == KeptPositions(images, id, 1)
      IN  /\ images' = RemoveById(images, id)
          /\ owner' = [k \in 1..Len(kept) |-> owner[kept[k]]]
          /\ lastOp' = [kind |-> "remove", id |-> id]
          /\ UNCHANGED <<calls, started>>

\* the Clear All button, rendered when images.length > 0: lines 108-113
ClearAll ==
    /\ Len(images) > 0
    /\ images' = <<>>
    /\ owner' = <<>>
    /\ lastOp' = [kind |-> "clear"]
    /\ UNCHANGED <<calls, started>>

\* zip.file(fileName, base64Data, { base64: true }): an entry of the same
\* name is replaced
ZipFile(zip, name, data) ==
    [n \in (DOMAIN zip) \cup {name} |-> IF n = name THEN data ELSE zip[n]]

\* images.filter(img => img.status === 'done').forEach(img => { ... })
RECURSIVE ZipDoneItems(_, _, _)
ZipDoneItems(zip, imgs, i) ==
    IF i > Len(imgs) THEN zip
    ELSE IF imgs[i].status = "done"
         THEN ZipDoneItems(ZipFile(zip, PngFileName(imgs[i].originalName),
                                   StripDataPrefix(imgs[i].pngUrl)),
                           imgs, i + 1)
         ELSE ZipDoneItems(zip, imgs, i + 1)

EmptyZip == [n \in {} |-> <<>>]

\* the Download All button, rendered when images.length > 0: lines 61-71, 108-119
DownloadAll ==
    /\ Len(images) > 0
    /\ lastOp' = [kind |-> "download", zip |-> ZipDoneItems(EmptyZip, images, 1)]
    /\ UNCHANGED <<images, owner, calls, started>>

Next ==
    \/ AcceptFiles
    \/ \E c \in calls : SettleDone(c)
    \/ \E c \in calls : SettleError(c)
    \/ RemoveItem
    \/ ClearAll
    \/ DownloadAll

Spec == Init /\ [][Next]_vars

\* every started decode settles
FairSpec == Spec /\ \A k \in 1..MaxFiles : WF_vars(Settle(k))

\* ------------------------------------------------- vocabulary of the claims
\* a declared content type that is an image type
IsImageType(t) ==
    /\ Len(t) >= 6
    /\ t[1] = "i" /\ t[2] = "m" /\ t[3] = "a" /\ t[4] = "g" /\ t[5] = "e" /\ t[6] = "/"

\* the names of the image files of a batch, in submission order
RECURSIVE ImageNames(_)
ImageNames(files) ==
    IF files = <<>> THEN <<>>
    ELSE IF IsImageType(Head(files).type)
         THEN <<Head(files).name>> \o ImageNames(Tail(files))
         ELSE ImageNames(Tail(files))

\* the invocation k still has an item in the set own/imgs
PresentIn(own, k) == \E p \in 1..Len(own) : own[p] = k

ItemIn(imgs, own, k) == imgs[CHOOSE p \in 1..Len(own) : own[p] = k]

Present(k) == PresentIn(owner, k)

Item(k) == ItemIn(images, owner, k)

Pending(k) == Call(k) # {}

\* ---------------------------------------------------------------- C1
\* C1: every image file of a drop or selection appends exactly one item, in
\* submission order and under the file's name; the item is registered in
\* status 'converting' with empty output while its decode is still pending;
\* and whenever an item first appears in the set, in any step, it appears
\* in 'converting' (never already 'done' or 'error').
C1_RegisteredConverting ==
    [][ /\ lastOp'.kind = "accept" =>
            LET names == ImageNames(lastOp'.files)
                n == Len(names)
                old == Len(images)
            IN  /\ Len(images') = old + n
                /\ SubSeq(images', 1, old) = images
                /\ started' = started + n
                /\ \A j \in 1..n :
                     /\ images'[old + j].originalName = names[j]
                     /\ images'[old + j].status = "converting"
                     /\ images'[old + j].pngUrl = <<>>
                     /\ owner'[old + j] = started + j
                     /\ \E c \in calls' : c.call = started + j
                                          /\ c.id = images'[old + j].id
        /\ \A p \in 1..Len(images') :
             ~PresentIn(owner, owner'[p]) =>
                 images'[p].status = "converting" /\ images'[p].pngUrl = <<>>
      ]_vars

\* a drop of two images has just registered two items, both converting
C1_Witness ==
    /\ lastOp.kind = "accept"
    /\ Len(ImageNames(lastOp.files)) = 2
    /\ Len(images) = 2
    /\ \A p \in 1..2 : images[p].status = "converting" /\ Pending(owner[p])

\* ---------------------------------------------------------------- C2
\* C2: a file whose declared type does not start with 'image/' creates no
\* item and starts no conversion: a batch adds as many items and pending
\* conversions as it has image files, and a batch without image files leaves
\* the item set and the pending conversions as they were.
C2_NonImageIgnored ==
    [][ lastOp'.kind = "accept" =>
            LET n == Len(ImageNames(lastOp'.files))
            IN  /\ Len(images') = Len(images) + n
                /\ Cardinality(calls') = Cardinality(calls) + n
                /\ calls \subseteq calls'
                /\ n < Len(lastOp'.files) =>
                     \A p \in 1..Len(images') : images'[p].originalName # NameNotes
                /\ n = 0 => images' = images /\ calls' = calls /\ owner' = owner
      ]_vars

\* a text file was submitted together with an image: one item, for the image
C2_Witness ==
    /\ lastOp.kind = "accept"
    /\ Len(lastOp.files) = 2
    /\ \E i \in 1..2 : lastOp.files[i].type = TypeText
    /\ \E i \in 1..2 : lastOp.files[i].type = TypeWebp
    /\ Len(images) = 1
    /\ images[1].originalName # NameNotes

\* ---------------------------------------------------------------- C3
\* C3: in every reachable state every item has status 'done' if and only if
\* its pngUrl is non-empty.
C3_DoneIffOutput ==
    \A p \in 1..Len(images) :
        images[p].status = "done" <=> images[p].pngUrl # <<>>

\* ---------------------------------------------------------------- C4
\* C4: in every reachable state the ids of the items in the set are pairwise
\* distinct.
C4_IdsDistinct ==
    \A p, q \in 1..Len(images) : p # q => images[p].id # images[q].id

\* ---------------------------------------------------------------- C5
\* the name without its extension: the part before the last dot, when a
\* non-empty extension free of '/' follows that dot
Basename(name) ==
    LET dots == {i \in 1..Len(name) : name[i] = "."}
    IN  IF dots = {} THEN name
        ELSE LET last == CHOOSE i \in dots : \A j \in dots : j <= i
             IN  IF last = Len(name) \/ \E j \in (last+1)..Len(name) : name[j] = "/"
                 THEN name
                 ELSE SubSeq(name, 1, last - 1)

DoneItems == {p \in 1..Len(images) : images[p].status = "done"}

\* C5: the archive downloadAll builds from a set with M 'done' items has
\* exactly M entries, named <basename>.png after the done items, and none
\* for an item that is not 'done'.  It is stated here for the states whose
\* ids are pairwise distinct, where every done item holds its own output.
C5_ArchiveEntries ==
    (lastOp.kind = "download" /\ C4_IdsDistinct) =>
        /\ Cardinality(DOMAIN lastOp.zip) = Cardinality(DoneItems)
        /\ DOMAIN lastOp.zip =
              {Basename(images[p].originalName) \o DotPng : p \in DoneItems}

\* ---------------------------------------------------------------- C6
\* C6: an item's status only moves converting -> done or converting -> error;
\* an item that is 'done' or 'error' is changed by no later step, and no item
\* returns to 'converting'.
C6_StatusForward ==
    [][ \A k \in 1..MaxFiles :
          (PresentIn(owner, k) /\ PresentIn(owner', k)) =>
             LET before == ItemIn(images, owner, k)
                 after  == ItemIn(images', owner', k)
             IN  /\ before.status \in {"done", "error"} => after = before
                 /\ after.status = "converting" => before.status = "converting"
      ]_vars

\* ---------------------------------------------------------------- C7
\* new is old without the items of the given id, the others kept in order
IsDeletionOf(old, new, id) ==
    \E f \in [1..Len(new) -> 1..Len(old)] :
        /\ \A a, b \in 1..Len(new) : a < b => f[a] < f[b]
        /\ \A a \in 1..Len(new) : new[a] = old[f[a]]
        /\ {f[a] : a \in 1..Len(new)} = {i \in 1..Len(old) : old[i].id # id}

HasId(imgs, id) == \E p \in 1..Len(imgs) : imgs[p].id = id

C8_CompletionFrame ==
    [][ lastOp'.kind = "settle" =>
          /\ Len(images') = Len(images)
          /\ \A p \in 1..Len(images) :
               IF owner[p] = lastOp'.call
               THEN /\ images'[p].status = lastOp'.result
                    /\ images'[p].id = images[p].id
                    /\ images'[p].originalName = images[p].originalName
                    /\ images'[p].pngUrl =
                         IF lastOp'.result = "done"
                         THEN ToDataURL(lastOp'.call) ELSE <<>>
               ELSE images'[p] = images[p]
      ]_vars

\* ---------------------------------------------------------------- C9
\* C9: with every started decode settling, each item whose conversion is
\* pending is eventually removed or cleared, or its own conversion settles
\* and leaves it 'done' (decode succeeded) or 'error' (decode or context
\* failed); no item stays 'converting' for ever.
C9_EventuallySettled ==
    \A k \in 1..MaxFiles :
        (Present(k) /\ Pending(k)) ~>
            \/ ~Present(k)
            \/ /\ lastOp.kind = "settle"
               /\ lastOp.call = k
               /\ Item(k).status = lastOp.result
               /\ Item(k).status \in {"done", "error"}

\* an image has just become 'done' while another conversion is in flight
C9_Witness ==
    /\ lastOp.kind = "settle"
    /\ lastOp.result = "done"
    /\ Present(lastOp.call)
    /\ Item(lastOp.call).status = "done"
    /\ \E c \in calls : Present(c.call) /\ Item(c.call).status = "converting"

\* ---------------------------------------------------------------- C10
\* C10: a conversion that settles after its item was removed or cleared
\* changes nothing in the item set, and an item that left the set never
\* comes back.
C10_LateCompletionNoOp ==
    [][ /\ (lastOp'.kind = "settle" /\ ~PresentIn(owner, lastOp'.call)) =>
              images' = images
        /\ \A k \in 1..MaxFiles :
              (k <= started /\ ~PresentIn(owner, k)) => ~PresentIn(owner', k)
      ]_vars

====
